---- MODULE Spec2Model ----
(***************************************************************************)
(* Model of the FEM document objects of Mod/Fem:                           *)
(*   femobjects/result_mechanical.py         ResultMechanical              *)
(*   femsolver/elmer/equations/magnetodynamic.py   Proxy                   *)
(* A document object is a typed attribute store: the declared names in     *)
(* declaration order, their types, the read-only and locked flags, and the *)
(* values.  The Python proxies declare the attributes at construction and  *)
(* rewrite legacy layouts in onDocumentRestored.                           *)
(***************************************************************************)
EXTENDS Integers, Sequences, FiniteSets, TLC

\* ------------------------------------------------------------------ bounds

\* Longest Stats list a persisted document holds (the legacy length 39 and
\* the lengths around it are inside the bound).
MaxStatsLen == 40
\* Stats lists of persisted documents are [k |-> (p * k) % ValMod], p in 0..MaxPattern.
MaxPattern == 1
ValMod == 64
\* Most equation objects attached to one solver.
MaxEquations == 3

\* --------------------------------------------------------- program constants

\* result_mechanical.py:227  zero_list = 26 * [0]
StatsCount == 26
\* result_mechanical.py:248  if len(obj.Stats) == 39
LegacyStatsLen == 39
\* result_mechanical.py:250  range(12, -1, -1): the first index of the loop
LastTriple == 12
\* magnetodynamic.py:113  obj.Priority = 10
MagnetodynamicPriority == 10

NoError == "ok"

\* ------------------------------------------------------------------ helpers

\* The names a sequence of names holds.
SeqNames(s) == {s[i] : i \in DOMAIN s}

\* Number of times name n occurs in the sequence s.
Occurrences(s, n) == Cardinality({i \in DOMAIN s : s[i] = n})

\* A handler is a sequence of statements, each run on the object the one
\* before it left: Then(o, F) is that object o, evaluated once, given to F.
Then(o, F(_)) == CHOOSE r \in {F(v) : v \in {o}} : TRUE

\* ----------------------------------------------------- the host's object

\* Default value of a freshly declared property, by property type.
DefaultValue(type) ==
    CASE type = "App::PropertyString"     -> ""
      [] type = "App::PropertyInteger"    -> 0
      [] type = "App::PropertyFloat"      -> 0
      [] type = "App::PropertyFrequency"  -> 0
      [] type = "App::PropertyBool"       -> FALSE
      [] type = "App::PropertyFloatList"  -> <<>>
      [] type = "App::PropertyVectorList" -> <<>>

\* What kind of value a property type takes.
KindOf(type) ==
    CASE type = "App::PropertyString"     -> "string"
      [] type = "App::PropertyInteger"    -> "number"
      [] type = "App::PropertyFloat"      -> "number"
      [] type = "App::PropertyFrequency"  -> "number"
      [] type = "App::PropertyBool"       -> "bool"
      [] type = "App::PropertyFloatList"  -> "list"
      [] type = "App::PropertyVectorList" -> "list"

\* An object with no attribute at all.
EmptyObject ==
    [schema |-> <<>>, type |-> <<>>, ro |-> {}, locked |-> {}, val |-> <<>>,
     err |-> NoError]

Has(o, name) == name \in DOMAIN o.val

\* hasattr(obj, name)
hasattr(o, name) == Has(o, name)

\* An exception aborts the rest of the handler: every step is skipped once
\* o.err is set.
Raise(o, e) == [o EXCEPT !.err = e]

\* Variant of addLockedProperty: a name already declared is declared again.
addLockedPropertyUnchecked(o, type, name, attr) ==
    IF o.err # NoError THEN o
    ELSE [o EXCEPT !.schema = Append(@, name),
                   !.type   = (name :> type) @@ @,
                   !.ro     = IF attr THEN @ \cup {name} ELSE @,
                   !.locked = @ \cup {name},
                   !.val    = (name :> DefaultValue(type)) @@ @]

\* obj.addLockedProperty(type, name, group, doc, attr): declares a property
\* and locks it against removal; attr = 1 (True) makes it read-only.
\* Declaring a name the object already has raises.
addLockedProperty(o, type, name, attr) ==
    IF o.err # NoError THEN o
    ELSE IF name \in SeqNames(o.schema) THEN Raise(o, "DuplicateAttributeError")
    ELSE [o EXCEPT !.schema = Append(@, name),
                   !.type   = (name :> type) @@ @,
                   !.ro     = IF attr THEN @ \cup {name} ELSE @,
                   !.locked = @ \cup {name},
                   !.val    = (name :> DefaultValue(type)) @@ @]

\* obj.<name> = v as written by the proxies' own code (construction and
\* migration): the privileged write, which ignores the read-only flag.
setattr(o, name, v) ==
    IF o.err # NoError THEN o
    ELSE IF ~Has(o, name) THEN Raise(o, "UnknownAttributeError")
    ELSE [o EXCEPT !.val = (name :> v) @@ @]

\* obj.<name> read by the proxies' own code.
getattr(o, name) == o.val[name]

\* obj.setPropertyStatus(name, "-LockDynamic")
setPropertyStatusUnlock(o, name) ==
    IF o.err # NoError THEN o
    ELSE IF ~Has(o, name) THEN Raise(o, "UnknownAttributeError")
    ELSE [o EXCEPT !.locked = @ \ {name}]

\* obj.removeProperty(name): deletes the key entirely; a locked property
\* cannot be removed.
removeProperty(o, name) ==
    IF o.err # NoError THEN o
    ELSE IF ~Has(o, name) THEN Raise(o, "UnknownAttributeError")
    ELSE IF name \in o.locked THEN Raise(o, "LockedAttributeError")
    ELSE [o EXCEPT !.schema = SelectSeq(@, LAMBDA n : n # name),
                   !.type   = [n \in (DOMAIN @) \ {name} |-> @[n]],
                   !.ro     = @ \ {name},
                   !.val    = [n \in (DOMAIN @) \ {name} |-> @[n]]]

\* Declares the properties of a table <<type, name, attr>> in order.
RECURSIVE DeclareFrom(_, _, _)
DeclareFrom(o, props, i) ==
    IF i > Len(props) THEN o
    ELSE LET Rest(v) == DeclareFrom(v, props, i + 1)
         IN  Then(addLockedProperty(o, props[i][1], props[i][2], props[i][3]), Rest)

DeclareAll(o, props) ==
    CHOOSE r \in {DeclareFrom(v, ps, 1) : v \in {o}, ps \in {props}} : TRUE

\* -------------------------------------------- femobjects/result_mechanical.py

\* The Fem::FemResultObject the proxy is attached to: it owns Stats, which
\* the proxy assigns without declaring it.
FemResultObject ==
    addLockedProperty(EmptyObject, "App::PropertyFloatList", "Stats", FALSE)

\* Type = "Fem::ResultMechanical"
ResultMechanicalType == "Fem::ResultMechanical"

\* The first declaration of __init__: ResultType, read-only.
ResultTypeDecl == <<"App::PropertyString", "ResultType", TRUE>>

\* The declaration of vonMises, as __init__ makes it.
VonMisesDecl == <<"App::PropertyFloatList", "vonMises", TRUE>>

\* Variant of RestoredVonMisesDecl: the read-only flag is left out.
RestoredVonMisesDeclWritable == <<"App::PropertyFloatList", "vonMises", FALSE>>

\* The declaration of vonMises, as onDocumentRestored makes it.
RestoredVonMisesDecl == <<"App::PropertyFloatList", "vonMises", TRUE>>

\* The declarations of __init__ before vonMises, in order.
ResultPropsHead ==
    <<<<"App::PropertyInteger", "Eigenmode", TRUE>>,
      <<"App::PropertyFloat", "EigenmodeFrequency", TRUE>>,
      <<"App::PropertyVectorList", "DisplacementVectors", TRUE>>,
      <<"App::PropertyFloatList", "Peeq", TRUE>>,
      <<"App::PropertyFloatList", "MohrCoulomb", TRUE>>,
      <<"App::PropertyFloatList", "ReinforcementRatio_x", TRUE>>,
      <<"App::PropertyFloatList", "ReinforcementRatio_y", TRUE>>,
      <<"App::PropertyFloatList", "ReinforcementRatio_z", TRUE>>,
      <<"App::PropertyVectorList", "PS1Vector", TRUE>>,
      <<"App::PropertyVectorList", "PS2Vector", TRUE>>,
      <<"App::PropertyVectorList", "PS3Vector", TRUE>>,
      <<"App::PropertyFloatList", "DisplacementLengths", TRUE>> >>

\* The declarations of __init__ after vonMises, in order.
ResultPropsTail ==
    <<<<"App::PropertyFloatList", "PrincipalMax", TRUE>>,
      <<"App::PropertyFloatList", "PrincipalMed", TRUE>>,
      <<"App::PropertyFloatList", "PrincipalMin", TRUE>>,
      <<"App::PropertyFloatList", "MaxShear", TRUE>>,
      <<"App::PropertyFloatList", "MassFlowRate", TRUE>>,
      <<"App::PropertyFloatList", "NetworkPressure", TRUE>>,
      <<"App::PropertyFloatList", "UserDefined", TRUE>>,
      <<"App::PropertyFloatList", "Temperature", TRUE>>,
      <<"App::PropertyVectorList", "HeatFlux", TRUE>>,
      <<"App::PropertyFloatList", "NodeStressXX", TRUE>>,
      <<"App::PropertyFloatList", "NodeStressYY", TRUE>>,
      <<"App::PropertyFloatList", "NodeStressZZ", TRUE>>,
      <<"App::PropertyFloatList", "NodeStressXY", TRUE>>,
      <<"App::PropertyFloatList", "NodeStressXZ", TRUE>>,
      <<"App::PropertyFloatList", "NodeStressYZ", TRUE>>,
      <<"App::PropertyFloatList", "NodeStrainXX", TRUE>>,
      <<"App::PropertyFloatList", "NodeStrainYY", TRUE>>,
      <<"App::PropertyFloatList", "NodeStrainZZ", TRUE>>,
      <<"App::PropertyFloatList", "NodeStrainXY", TRUE>>,
      <<"App::PropertyFloatList", "NodeStrainXZ", TRUE>>,
      <<"App::PropertyFloatList", "NodeStrainYZ", TRUE>>,
      <<"App::PropertyFloatList", "CriticalStrainRatio", TRUE>> >>

\* Variant of ZeroList: the count of the legacy layout.
ZeroListLegacy == [k \in 1..LegacyStatsLen |-> 0]

\* zero_list = 26 * [0]
ZeroList == [k \in 1..StatsCount |-> 0]

\* ResultMechanical.__init__(obj)
ResultMechanicalInit(o) ==
    LET S1(v) == DeclareAll(v, <<ResultTypeDecl>>)
        S2(v) == setattr(v, "ResultType", ResultMechanicalType)
        S3(v) == DeclareAll(v, ResultPropsHead \o <<VonMisesDecl>> \o ResultPropsTail)
        S4(v) == setattr(v, "Stats", ZeroList)
    IN  Then(Then(Then(Then(o, S1), S2), S3), S4)

\* del temp[idx] on a Python list (idx counts from 0, a negative idx from
\* the end); an index outside the list raises IndexError.
PyDel(t, idx) ==
    LET n == Len(t.list)
        j == IF idx < 0 THEN idx + n ELSE idx
    IN  IF ~t.ok THEN t
        ELSE IF j < 0 \/ j >= n THEN [t EXCEPT !.ok = FALSE]
        ELSE [t EXCEPT !.list = SubSeq(@, 1, j) \o SubSeq(@, j + 2, n)]

\* Variant of AvgIndex: the min slot is deleted instead of the avg slot.
AvgIndexMin(i) == 3 * i

\* The index deleted for triple i: the avg slot of [min, avg, max].
AvgIndex(i) == 3 * i + 1

\* for i in range(first, -1, -1): del temp[3 * i + 1]
RECURSIVE DropAvgLoop(_, _)
DropAvgLoop(t, i) ==
    IF i < 0 THEN t
    ELSE LET Rest(v) == DropAvgLoop(v, i - 1)
             Del(v) == PyDel(v, AvgIndex(i))
         IN  Then(Then(t, Del), Rest)

\* Variant of RenameStressValues: the old property is not removed.
RenameStressValuesKeepOld(o) ==
    IF o.err # NoError THEN o
    ELSE IF hasattr(o, "StressValues")
    THEN LET S1(v) == DeclareAll(v, <<RestoredVonMisesDecl>>)
             S2(v) == IF v.err # NoError THEN v
                      ELSE setattr(v, "vonMises", getattr(v, "StressValues"))
         IN  Then(Then(o, S1), S2)
    ELSE o

\* Variant of RenameStressValues: the value is not copied.
RenameStressValuesNoCopy(o) ==
    IF o.err # NoError THEN o
    ELSE IF hasattr(o, "StressValues")
    THEN LET S1(v) == DeclareAll(v, <<RestoredVonMisesDecl>>)
             S3(v) == setPropertyStatusUnlock(v, "StressValues")
             S4(v) == removeProperty(v, "StressValues")
         IN  Then(Then(Then(o, S1), S3), S4)
    ELSE o

\* Variant of RenameStressValues: the old property is not unlocked before
\* it is removed.
RenameStressValuesNoUnlock(o) ==
    IF o.err # NoError THEN o
    ELSE IF hasattr(o, "StressValues")
    THEN LET S1(v) == DeclareAll(v, <<RestoredVonMisesDecl>>)
             S2(v) == IF v.err # NoError THEN v
                      ELSE setattr(v, "vonMises", getattr(v, "StressValues"))
             S4(v) == removeProperty(v, "StressValues")
         IN  Then(Then(Then(o, S1), S2), S4)
    ELSE o

\* The rename rule: "StressValues" was renamed to "vonMises".
RenameStressValues(o) ==
    IF o.err # NoError THEN o
    ELSE IF hasattr(o, "StressValues")
    THEN LET S1(v) == DeclareAll(v, <<RestoredVonMisesDecl>>)
             S2(v) == IF v.err # NoError THEN v
                      ELSE setattr(v, "vonMises", getattr(v, "StressValues"))
             S3(v) == setPropertyStatusUnlock(v, "StressValues")
             S4(v) == removeProperty(v, "StressValues")
         IN  Then(Then(Then(Then(o, S1), S2), S3), S4)
    ELSE o

\* Variant of IsLegacyStats: any list at least as long as the legacy one.
IsLegacyStatsAtLeast(stats) == Len(stats) >= LegacyStatsLen

\* The guard of the shape-reduction rule.
IsLegacyStats(stats) == Len(stats) = LegacyStatsLen

\* Variant of ReduceStats: the rule sits inside the rename rule's branch.
ReduceStatsNested(o) ==
    IF o.err # NoError THEN o
    ELSE IF hasattr(o, "StressValues") /\ IsLegacyStats(getattr(o, "Stats"))
    THEN LET temp == [list |-> getattr(o, "Stats"), ok |-> TRUE]
             Assign(t) == IF t.ok THEN setattr(o, "Stats", t.list)
                          ELSE Raise(o, "IndexError")
         IN  Then(DropAvgLoop(temp, LastTriple), Assign)
    ELSE o

\* The shape-reduction rule: Stats of min, avg, max was reduced to min, max.
ReduceStats(o) ==
    IF o.err # NoError THEN o
    ELSE IF IsLegacyStats(getattr(o, "Stats"))
    THEN LET temp == [list |-> getattr(o, "Stats"), ok |-> TRUE]
             Assign(t) == IF t.ok THEN setattr(o, "Stats", t.list)
                          ELSE Raise(o, "IndexError")
         IN  Then(DropAvgLoop(temp, LastTriple), Assign)
    ELSE o

\* ResultMechanical.onDocumentRestored(obj)
onDocumentRestored(o) == Then(Then(o, RenameStressValues), ReduceStats)

\* ------------------------------ femsolver/elmer/equations/magnetodynamic.py

\* super().__init__(obj): the base equation proxies declare the base
\* attribute set; Priority is the attribute of it that Proxy.__init__ assigns.
BaseEquationProps == << <<"App::PropertyInteger", "Priority", FALSE>> >>

BaseProxyInit(o) == DeclareAll(o, BaseEquationProps)

\* The declarations of the groups "Magnetodynamic" and "Linear System".
MagnetodynamicProps ==
    <<<<"App::PropertyBool", "IsHarmonic", FALSE>>,
      <<"App::PropertyFrequency", "AngularFrequency", FALSE>>,
      <<"App::PropertyBool", "UsePiolaTransform", FALSE>>,
      <<"App::PropertyBool", "QuadraticApproximation", FALSE>>,
      <<"App::PropertyBool", "StaticConductivity", FALSE>>,
      <<"App::PropertyBool", "FixInputCurrentDensity", FALSE>>,
      <<"App::PropertyBool", "AutomatedSourceProjectionBCs", FALSE>>,
      <<"App::PropertyBool", "UseLagrangeGauge", FALSE>>,
      <<"App::PropertyFloat", "LagrangeGaugePenalizationCoefficient", FALSE>>,
      <<"App::PropertyBool", "UseTreeGauge", FALSE>>,
      <<"App::PropertyBool", "LinearSystemRefactorize", FALSE>> >>

\* The declarations of the group "Results": the post processor options.
ResultsProps ==
    <<<<"App::PropertyBool", "CalculateCurrentDensity", FALSE>>,
      <<"App::PropertyBool", "CalculateElectricField", FALSE>>,
      <<"App::PropertyBool", "CalculateElementalFields", FALSE>>,
      <<"App::PropertyBool", "CalculateHarmonicLoss", FALSE>>,
      <<"App::PropertyBool", "CalculateJouleHeating", FALSE>>,
      <<"App::PropertyBool", "CalculateMagneticFieldStrength", FALSE>>,
      <<"App::PropertyBool", "CalculateMaxwellStress", FALSE>>,
      <<"App::PropertyBool", "CalculateNodalFields", FALSE>>,
      <<"App::PropertyBool", "CalculateNodalForces", FALSE>>,
      <<"App::PropertyBool", "CalculateNodalHeating", FALSE>>,
      <<"App::PropertyBool", "DiscontinuousBodies", FALSE>> >>

\* Variant of ResultsDefaults: CalculateElementalFields is left on, as it
\* is by default in Elmer.
ResultsDefaultsElmer ==
    <<<<"CalculateCurrentDensity", FALSE>>,
      <<"CalculateElectricField", FALSE>>,
      <<"CalculateElementalFields", TRUE>>,
      <<"CalculateHarmonicLoss", FALSE>>,
      <<"CalculateJouleHeating", FALSE>>,
      <<"CalculateMagneticFieldStrength", FALSE>>,
      <<"CalculateMaxwellStress", FALSE>>,
      <<"CalculateNodalFields", TRUE>>,
      <<"CalculateNodalForces", FALSE>>,
      <<"CalculateNodalHeating", FALSE>>,
      <<"DiscontinuousBodies", FALSE>> >>

\* The values Proxy.__init__ assigns to the post processor options, in order.
ResultsDefaults ==
    <<<<"CalculateCurrentDensity", FALSE>>,
      <<"CalculateElectricField", FALSE>>,
      <<"CalculateElementalFields", FALSE>>,
      <<"CalculateHarmonicLoss", FALSE>>,
      <<"CalculateJouleHeating", FALSE>>,
      <<"CalculateMagneticFieldStrength", FALSE>>,
      <<"CalculateMaxwellStress", FALSE>>,
      <<"CalculateNodalFields", TRUE>>,
      <<"CalculateNodalForces", FALSE>>,
      <<"CalculateNodalHeating", FALSE>>,
      <<"DiscontinuousBodies", FALSE>> >>

\* Assigns the pairs <<name, value>> of a table in order.
RECURSIVE AssignFrom(_, _, _)
AssignFrom(o, pairs, i) ==
    IF i > Len(pairs) THEN o
    ELSE LET Rest(v) == AssignFrom(v, pairs, i + 1)
         IN  Then(setattr(o, pairs[i][1], pairs[i][2]), Rest)

AssignAll(o, pairs) ==
    CHOOSE r \in {AssignFrom(v, ps, 1) : v \in {o}, ps \in {pairs}} : TRUE

\* Proxy.__init__(obj)
MagnetodynamicInit(o) ==
    LET S1(v) == DeclareAll(v, MagnetodynamicProps)
        S2(v) == setattr(v, "IsHarmonic", FALSE)
        S3(v) == setattr(v, "AngularFrequency", 0)
        S4(v) == setattr(v, "Priority", MagnetodynamicPriority)
        S5(v) == DeclareAll(v, ResultsProps)
        S6(v) == AssignAll(v, ResultsDefaults)
    IN  Then(Then(Then(Then(Then(Then(Then(o, BaseProxyInit), S1), S2), S3), S4), S5), S6)

\* The Priority attributes of the equation objects, in declaration order.
Priorities(es) == [i \in DOMAIN es |-> es[i].val["Priority"]]

\* Variant of InsertByPriority: instance i goes before the instances of its
\* own priority.
RECURSIVE InsertByPriorityBeforeTies(_, _, _)
InsertByPriorityBeforeTies(sorted, i, prio) ==
    IF sorted = <<>> THEN <<i>>
    ELSE IF prio[Head(sorted)] < prio[i]
    THEN <<Head(sorted)>> \o InsertByPriorityBeforeTies(Tail(sorted), i, prio)
    ELSE <<i>> \o sorted

\* Inserts instance i into the order sorted so far: after every instance
\* whose priority is not above its own.
RECURSIVE InsertByPriority(_, _, _)
InsertByPriority(sorted, i, prio) ==
    IF sorted = <<>> THEN <<i>>
    ELSE IF prio[Head(sorted)] <= prio[i]
    THEN <<Head(sorted)>> \o InsertByPriority(Tail(sorted), i, prio)
    ELSE <<i>> \o sorted

\* The evaluation order of the first n instances.
RECURSIVE SortFirst(_, _)
SortFirst(prio, n) ==
    IF n = 0 THEN <<>> ELSE InsertByPriority(SortFirst(prio, n - 1), n, prio)

\* The evaluation order of the equation instances attached to one solver:
\* ascending by Priority, ties in declaration order.
ResolvedOrder(es) == SortFirst(Priorities(es), Len(es))

PriorityValues == {5, 10}

\* ------------------------------------------------ persisted documents

\* A Stats list of n entries as a document holds it: entry k is
\* (p * k) % ValMod, so p = 0 is all zeros and p = 1 has distinct entries.
StatsPattern(n, p) == [k \in 1..n |-> (p * k) % ValMod]

StressLists == {<<>>, <<7, 3>>}

\* The mechanical result as a version before the migrated commits wrote it:
\* the stress list is named StressValues (old) or already vonMises, it holds
\* v, Stats holds stats, and the declared properties are locked or not.
LegacyResult(old, stats, lk, v) ==
    LET name == IF old THEN "StressValues" ELSE "vonMises"
        S1(w) == DeclareAll(w, <<ResultTypeDecl>>)
        S2(w) == setattr(w, "ResultType", ResultMechanicalType)
        S3(w) == DeclareAll(w, ResultPropsHead
                               \o << <<"App::PropertyFloatList", name, TRUE>> >>
                               \o ResultPropsTail)
        S4(w) == setattr(w, name, v)
        S5(w) == setattr(w, "Stats", stats)
        S6(w) == [w EXCEPT !.locked = IF lk THEN @ ELSE {"Stats"}]
    IN  Then(Then(Then(Then(Then(Then(FemResultObject, S1), S2), S3), S4), S5), S6)

\* ------------------------------------------------ access by consumers

\* set(name, value) by a consumer: the ordinary, external write.
ExternalSet(o, name, kind, v) ==
    IF ~Has(o, name) THEN Raise(o, "UnknownAttributeError")
    ELSE IF name \in o.ro THEN Raise(o, "ReadOnlyViolationError")
    ELSE IF KindOf(o.type[name]) # kind THEN Raise(o, "TypeMismatchError")
    ELSE [o EXCEPT !.val = (name :> v) @@ @]

\* get(name) by a consumer.
ExternalGet(o, name) ==
    IF ~Has(o, name) THEN Raise(o, "UnknownAttributeError") ELSE o

\* Names and values consumers use.
AccessNames == {"Stats", "vonMises", "ResultType", "StressValues", "Peeq"}
AccessLists == {<<5, 9>>}
AccessStrings == {"Fem::Other"}

\* ------------------------------------------------------------------ state

VARIABLES
    kind,     \* what the document holds: "result" or "solver"
    obj,      \* the mechanical result object in memory
    file,     \* the mechanical result object as the document file holds it
    phase,    \* "Constructed", "Restored" (not yet migrated) or "Current"
    passes,   \* onDocumentRestored passes since the object was last restored
    op,       \* the last operation
    arg,      \* the attribute name the last operation was given
    err,      \* what the last operation raised
    eqs,      \* the equation objects of the solver, in declaration order
    order     \* the evaluation order last resolved for eqs

vars == <<kind, obj, file, phase, passes, op, arg, err, eqs, order>>

Exposed == phase \in {"Constructed", "Current"}

\* The object an operation leaves and, apart, what it raised.
Settled(o) == [o EXCEPT !.err = NoError]

ResultFrame == UNCHANGED <<kind, eqs, order>>

\* A new mechanical result object: ResultMechanical(obj) on the host's object.
InitResult ==
    /\ kind = "result"
    /\ \E r \in {ResultMechanicalInit(FemResultObject)} :
          /\ obj = Settled(r)
          /\ err = r.err
    /\ file = EmptyObject
    /\ phase = "Constructed"
    /\ passes = 0
    /\ op = "__init__"
    /\ arg = ""
    /\ eqs = <<>>
    /\ order = <<>>

\* The host has loaded a document an older version wrote: the object is
\* reconstituted from the file and not yet migrated.
InitLegacy ==
    /\ kind = "result"
    /\ \E old \in BOOLEAN, n \in 0..MaxStatsLen, p \in 0..MaxPattern,
          lk \in BOOLEAN, v \in StressLists :
          /\ file = LegacyResult(old, StatsPattern(n, p), lk, v)
          /\ obj = file
    /\ phase = "Restored"
    /\ passes = 0
    /\ op = "restore"
    /\ arg = ""
    /\ err = NoError
    /\ eqs = <<>>
    /\ order = <<>>

\* The host saves the document.
Save ==
    /\ kind = "result"
    /\ Exposed
    /\ file' = obj
    /\ op' = "save"
    /\ arg' = ""
    /\ err' = NoError
    /\ UNCHANGED <<obj, phase, passes>>
    /\ ResultFrame

\* The host reloads the document it saved.
Restore ==
    /\ kind = "result"
    /\ file # EmptyObject
    /\ obj' = file
    /\ phase' = "Restored"
    /\ passes' = 0
    /\ op' = "restore"
    /\ arg' = ""
    /\ err' = NoError
    /\ UNCHANGED file
    /\ ResultFrame

\* The host's lifecycle hook: one onDocumentRestored pass on the restored
\* object, before it is handed to consumers.
DocumentRestored ==
    /\ kind = "result"
    /\ phase = "Restored"
    /\ \E r \in {onDocumentRestored(obj)} :
          /\ obj' = Settled(r)
          /\ err' = r.err
    /\ phase' = "Current"
    /\ passes' = passes + 1
    /\ op' = "onDocumentRestored"
    /\ arg' = ""
    /\ UNCHANGED file
    /\ ResultFrame

\* A consumer reads an attribute.
Get ==
    /\ kind = "result"
    /\ Exposed
    /\ \E name \in AccessNames :
          /\ arg' = name
          /\ err' = ExternalGet(obj, name).err
    /\ op' = "get"
    /\ UNCHANGED <<obj, file, phase, passes>>
    /\ ResultFrame

\* A consumer writes an attribute.
Set ==
    /\ kind = "result"
    /\ Exposed
    /\ \E name \in AccessNames :
          /\ arg' = name
          /\ \E r \in {ExternalSet(obj, name, "list", v) : v \in AccessLists}
                     \cup {ExternalSet(obj, name, "string", v) : v \in AccessStrings} :
                /\ obj' = Settled(r)
                /\ err' = r.err
    /\ op' = "set"
    /\ UNCHANGED <<file, phase, passes>>
    /\ ResultFrame

\* ResultMechanical(obj) run again on an object that is already constructed.
Reconstruct ==
    /\ kind = "result"
    /\ Exposed
    /\ \E r \in {ResultMechanicalInit(obj)} :
          /\ obj' = Settled(r)
          /\ err' = r.err
    /\ op' = "reconstruct"
    /\ arg' = ""
    /\ UNCHANGED <<file, phase, passes>>
    /\ ResultFrame

\* ---------------------------------------------------- the solver document

SolverFrame == UNCHANGED <<kind, obj, file, phase, passes>>

\* A solver with no equation attached yet.
InitSolver ==
    /\ kind = "solver"
    /\ obj = EmptyObject
    /\ file = EmptyObject
    /\ phase = "Constructed"
    /\ passes = 0
    /\ op = "new"
    /\ arg = ""
    /\ err = NoError
    /\ eqs = <<>>
    /\ order = <<>>

\* create(doc): a new Magnetodynamic equation is constructed and attached.
CreateEquation ==
    /\ kind = "solver"
    /\ Len(eqs) < MaxEquations
    /\ \E r \in {MagnetodynamicInit(EmptyObject)} :
          /\ eqs' = IF r.err = NoError THEN Append(eqs, Settled(r)) ELSE eqs
          /\ err' = r.err
    /\ op' = "create"
    /\ arg' = ""
    /\ UNCHANGED order
    /\ SolverFrame

\* Proxy(obj) run again on an equation object that is already constructed.
ReconstructEquation ==
    /\ kind = "solver"
    /\ \E i \in DOMAIN eqs :
          \E r \in {MagnetodynamicInit(eqs[i])} :
             /\ eqs' = [eqs EXCEPT ![i] = Settled(r)]
             /\ err' = r.err
    /\ op' = "reconstruct"
    /\ arg' = ""
    /\ UNCHANGED order
    /\ SolverFrame

\* A consumer sets the Priority of an equation.
SetPriority ==
    /\ kind = "solver"
    /\ \E i \in DOMAIN eqs, p \in PriorityValues :
          \E r \in {ExternalSet(eqs[i], "Priority", "number", p)} :
             /\ eqs' = [eqs EXCEPT ![i] = Settled(r)]
             /\ err' = r.err
    /\ op' = "set"
    /\ arg' = "Priority"
    /\ UNCHANGED order
    /\ SolverFrame

\* The solver resolves the evaluation order of its equations.
Resolve ==
    /\ kind = "solver"
    /\ order' = ResolvedOrder(eqs)
    /\ op' = "resolve"
    /\ arg' = ""
    /\ err' = NoError
    /\ UNCHANGED eqs
    /\ SolverFrame

Init == InitResult \/ InitLegacy \/ InitSolver

Next ==
    \/ Save
    \/ Restore
    \/ DocumentRestored
    \/ Get
    \/ Set
    \/ Reconstruct
    \/ CreateEquation
    \/ ReconstructEquation
    \/ SetPriority
    \/ Resolve

Spec == Init /\ [][Next]_vars

\* ------------------------------------------------------------- properties

\* The object right after an onDocumentRestored pass; file is what the pass
\* was given, the object as reconstituted from the document.
Migrated == kind = "result" /\ op = "onDocumentRestored"

\* C1: migration is idempotent: a second onDocumentRestored pass on the
\* output of the first raises nothing and changes no attribute name and no
\* value (nor the declaration order or the flags).
C1_Idempotent ==
    Migrated =>
        \E r \in {onDocumentRestored(obj)} :
            /\ r.err = NoError
            /\ DOMAIN r.val = DOMAIN obj.val
            /\ \A n \in DOMAIN obj.val : r.val[n] = obj.val[n]
            /\ r = obj

\* A legacy object, with StressValues and 39 Stats, has been migrated.
C1_Witness ==
    /\ Migrated
    /\ Has(file, "StressValues")
    /\ Len(file.val["Stats"]) = 39
    /\ obj # file
    /\ Len(obj.val["Stats"]) = 26

\* C2: the rename rule is loss-free: when the restored object held
\* StressValues = v, after onDocumentRestored vonMises exists and equals v
\* and StressValues is absent.
C2_RenameLossFree ==
    (Migrated /\ Has(file, "StressValues")) =>
        /\ Has(obj, "vonMises")
        /\ obj.val["vonMises"] = file.val["StressValues"]
        /\ ~Has(obj, "StressValues")

\* A legacy object holding StressValues = <<7, 3>> has been migrated.
C2_Witness ==
    /\ Migrated
    /\ Has(file, "StressValues")
    /\ file.val["StressValues"] = <<7, 3>>
    /\ ~Has(file, "vonMises")
    /\ obj.val["vonMises"] = <<7, 3>>

\* C3: shape reduction: a restored Stats of 39 entries, 13 triples
\* [min, avg, max], becomes the 26 entries [min_0, max_0, ..., min_12, max_12].
C3_ShapeReduction ==
    (Migrated /\ Len(file.val["Stats"]) = 39) =>
        /\ Len(obj.val["Stats"]) = 26
        /\ \A k \in 0..12 :
              /\ obj.val["Stats"][2 * k + 1] = file.val["Stats"][3 * k + 1]
              /\ obj.val["Stats"][2 * k + 2] = file.val["Stats"][3 * k + 3]

\* A legacy Stats of 39 distinct entries 1..39 has been reduced.
C3_Witness ==
    /\ Migrated
    /\ file.val["Stats"] = [k \in 1..39 |-> k]
    /\ obj.val["Stats"][1] = 1
    /\ obj.val["Stats"][2] = 3
    /\ obj.val["Stats"][26] = 39

\* C4: forward safety: onDocumentRestored on a current object (no
\* StressValues, Stats not of the legacy length 39) raises nothing and leaves
\* the object exactly as it was.
C4_ForwardSafety ==
    (Migrated /\ ~Has(file, "StressValues") /\ Len(file.val["Stats"]) # 39) =>
        /\ err = NoError
        /\ obj = file

\* A saved current object, with vonMises and 26 Stats, has been restored and
\* passed through onDocumentRestored.
C4_Witness ==
    /\ Migrated
    /\ ~Has(file, "StressValues")
    /\ Has(file, "vonMises")
    /\ Len(file.val["Stats"]) = 26
    /\ obj = file
    /\ err = NoError

\* The attributes the mechanical result declares read-only.
ReadOnlyNames == {"ResultType", "vonMises", "Peeq"}

\* C5: read-only enforcement: an external set on a read-only attribute
\* fails with ReadOnlyViolationError whatever the value and leaves the
\* attribute unchanged; every attribute of the mechanical result but Stats
\* is read-only, and a read-only attribute changes or appears only in
\* construction and migration.
C5_ReadOnlyStep ==
    /\ (kind' = "result" /\ op' = "set" /\ arg' \in ReadOnlyNames /\ Has(obj, arg')) =>
          /\ err' = "ReadOnlyViolationError"
          /\ obj' = obj
    /\ (kind' = "result" /\ phase' \in {"Constructed", "Current"} /\ err' = NoError
            /\ op' \in {"onDocumentRestored", "set", "get", "save"}) =>
          (DOMAIN obj'.val) \ {"Stats"} \subseteq obj'.ro
    /\ \A n \in ReadOnlyNames :
          (Has(obj', n) /\ (~Has(obj, n) \/ obj'.val[n] # obj.val[n])) =>
              op' \in {"__init__", "onDocumentRestored"}

C5_ReadOnlyEnforced == [][C5_ReadOnlyStep]_vars

\* A consumer's set on the vonMises that migration declared has failed.
C5_Witness ==
    /\ kind = "result"
    /\ op = "set"
    /\ arg = "vonMises"
    /\ err = "ReadOnlyViolationError"
    /\ phase = "Current"
    /\ Has(file, "StressValues")

\* Every name of the object's schema is declared once.
DeclaredOnce(o) == \A n \in SeqNames(o.schema) : Occurrences(o.schema, n) = 1

\* C6: no duplicate attributes: a declaration of a name that is already
\* declared fails with DuplicateAttributeError, and after every sequence of
\* declarations every name is in the schema at most once.
C6_NoDuplicates ==
    /\ DeclaredOnce(obj)
    /\ DeclaredOnce(file)
    /\ \A i \in DOMAIN eqs : DeclaredOnce(eqs[i])
    /\ op = "reconstruct" => err = "DuplicateAttributeError"

\* The constructor has been run again on a migrated object, which held
\* every name already.
C6_Witness ==
    /\ kind = "result"
    /\ op = "reconstruct"
    /\ err = "DuplicateAttributeError"
    /\ Has(obj, "vonMises")
    /\ Has(file, "StressValues")

\* C7: priority ordering: the resolved order is ascending by Priority, ties
\* in declaration order; priorities [10, 5, 10] resolve to [2, 1, 3].
C7_PriorityOrder ==
    (kind = "solver" /\ op = "resolve") =>
        /\ Len(order) = Len(eqs)
        /\ SeqNames(order) = DOMAIN eqs
        /\ \A a, b \in DOMAIN order :
              a < b =>
                 \/ Priorities(eqs)[order[a]] < Priorities(eqs)[order[b]]
                 \/ /\ Priorities(eqs)[order[a]] = Priorities(eqs)[order[b]]
                    /\ order[a] < order[b]
        /\ Priorities(eqs) = <<10, 5, 10>> => order = <<2, 1, 3>>

\* Three equations of priorities [10, 5, 10] have been resolved.
C7_Witness ==
    /\ kind = "solver"
    /\ op = "resolve"
    /\ Len(eqs) = 3
    /\ Priorities(eqs) = <<10, 5, 10>>
    /\ order = <<2, 1, 3>>

\* C8: migration runs once per reload and before exposure: a restored
\* object is touched by nothing before its one onDocumentRestored pass,
\* consumers act only on constructed or migrated objects, and what they see
\* is no intermediate state: the pass raised nothing, StressValues is gone
\* and a legacy Stats is fully reduced.
C8_MigratedBeforeExposure ==
    kind = "result" =>
        /\ phase = "Restored" => (passes = 0 /\ op = "restore")
        /\ phase = "Current" => passes = 1
        /\ op \in {"get", "set"} => phase \in {"Constructed", "Current"}
        /\ phase \in {"Constructed", "Current"} => ~Has(obj, "StressValues")
        /\ Migrated =>
              /\ err = NoError
              /\ Has(file, "StressValues") => Has(obj, "vonMises")
              /\ Len(file.val["Stats"]) = 39 => Len(obj.val["Stats"]) = 26

\* A consumer has read vonMises of a restored legacy object after its one
\* pass.
C8_Witness ==
    /\ kind = "result"
    /\ op = "get"
    /\ arg = "vonMises"
    /\ err = NoError
    /\ phase = "Current"
    /\ passes = 1
    /\ Has(file, "StressValues")
    /\ Len(file.val["Stats"]) = 39

\* C9 as stated: whenever the object is handed to consumers, right after
\* construction and right after onDocumentRestored, Stats has 26 entries.
C9_StatsAlways26 ==
    (kind = "result" /\ op \in {"__init__", "onDocumentRestored"}) =>
        Len(obj.val["Stats"]) = 26

\* C9 amended: Stats has 26 entries right after construction, and right
\* after onDocumentRestored when the restored list had 39 or 26 entries; a
\* restored list of any other length keeps its length.
C9_StatsLength ==
    /\ (kind = "result" /\ op = "__init__") => Len(obj.val["Stats"]) = 26
    /\ Migrated =>
          IF Len(file.val["Stats"]) \in {26, 39}
          THEN Len(obj.val["Stats"]) = 26
          ELSE Len(obj.val["Stats"]) = Len(file.val["Stats"])

\* An object that already had vonMises but still 39 Stats has been migrated.
C9_Witness ==
    /\ Migrated
    /\ ~Has(file, "StressValues")
    /\ Len(file.val["Stats"]) = 39
    /\ Len(obj.val["Stats"]) = 26

\* C10: rule order independence: the shape-reduction rule followed by the
\* rename rule leaves the object, and raises, what onDocumentRestored (rename,
\* then shape reduction) did; the rename rule does not change whether Stats
\* has the legacy length, nor the shape reduction whether StressValues is
\* present.
C10_RulesCommute ==
    Migrated =>
        /\ \E r \in {Then(Then(file, ReduceStats), RenameStressValues)} :
              /\ Settled(r) = obj
              /\ r.err = err
        /\ \E r \in {RenameStressValues(file)} :
              IsLegacyStats(getattr(r, "Stats")) = IsLegacyStats(getattr(file, "Stats"))
        /\ \E r \in {ReduceStats(file)} :
              hasattr(r, "StressValues") = hasattr(file, "StressValues")

\* An object on which both rules fire has been migrated.
C10_Witness ==
    /\ Migrated
    /\ Has(file, "StressValues")
    /\ file.val["StressValues"] = <<7, 3>>
    /\ "StressValues" \in file.locked
    /\ IsLegacyStats(file.val["Stats"])
    /\ Has(obj, "vonMises")
    /\ ~IsLegacyStats(obj.val["Stats"])

\* The toggles of the group "Results" of a Magnetodynamic equation.
ResultToggles ==
    {"CalculateCurrentDensity", "CalculateElectricField", "CalculateElementalFields",
     "CalculateHarmonicLoss", "CalculateJouleHeating", "CalculateMagneticFieldStrength",
     "CalculateMaxwellStress", "CalculateNodalFields", "CalculateNodalForces",
     "CalculateNodalHeating", "DiscontinuousBodies"}

\* The equation create(doc) has just constructed and attached.
Created == kind = "solver" /\ op = "create" /\ err = NoError

\* C11: Magnetodynamic defaults: right after construction the one toggle of
\* the group "Results" that is on is CalculateNodalFields, every sibling is
\* off, Priority = 10, IsHarmonic = False and AngularFrequency = 0.
C11_MagnetodynamicDefaults ==
    (kind = "solver" /\ op = "create") =>
        /\ err = NoError
        /\ Len(eqs) >= 1
        /\ \E e \in {eqs[Len(eqs)]} :
              /\ ResultToggles \subseteq DOMAIN e.val
              /\ {n \in ResultToggles : e.val[n] = TRUE} = {"CalculateNodalFields"}
              /\ \A n \in ResultToggles \ {"CalculateNodalFields"} : e.val[n] = FALSE
              /\ e.val["Priority"] = 10
              /\ e.val["IsHarmonic"] = FALSE
              /\ e.val["AngularFrequency"] = 0
              /\ e.val["AngularFrequency"] >= 0

\* A second equation has been constructed beside one whose Priority a
\* consumer had set to 5.
C11_Witness ==
    /\ Created
    /\ Len(eqs) = 2
    /\ eqs[1].val["Priority"] = 5
    /\ eqs[2].val["Priority"] = 10
    /\ eqs[2].val["CalculateNodalFields"] = TRUE
    /\ eqs[2].val["CalculateElementalFields"] = FALSE

====
